---- MODULE Spec2Model ----
(***************************************************************************)
(* Trading journal request handlers (journal/views.py): the trade listing  *)
(* and aggregation view, and the trade / strategy / image handlers that    *)
(* change the persisted state it reads.                                    *)
(*                                                                         *)
(* Values.  A nullable column holds None (the empty tuple) or Some(v).     *)
(* Decimal amounts are integers (Decimal sums and products of stored       *)
(* values are exact).  win_rate, a Python float, is the exact rational     *)
(* [num, den] in lowest terms.  A string column is ordered by its rank in  *)
(* the database collation (Collate, StatusRank).                           *)
(***************************************************************************)
EXTENDS Integers, Sequences, FiniteSets, TLC

VARIABLES
    trades,          \* rows of Trade
    strategies,      \* rows of Strategy
    images,          \* rows of TradeImage
    portfolios,      \* user -> None | Some(current_balance)
    nextTradePk,     \* next auto-increment pk of Trade
    response         \* the last request handled and the response to it

vars == <<trades, strategies, images, portfolios, nextTradePk, response>>

db == <<trades, strategies, images, portfolios>>

-----------------------------------------------------------------------------
(* Bounds *)

MaxTrades == 2   \* trades ever created in one behaviour of Spec
MaxStored == 2   \* trades stored when a listing is requested (SpecSort, SpecStats)

-----------------------------------------------------------------------------
(* Values *)

None == <<>>

Some(v) == <<v>>

Val(x) == x[1]

Users == {"alice", "bob"}

Symbols == {"AAPL", "MSFT"}

EntryDates == {1, 2}

Statuses == {"OPEN", "CLOSED"}

Pnls == {None, Some(-1), Some(0), Some(1)}

\* Position sizes: entry_price and quantity.
Sizes == {[entry_price |-> 1, quantity |-> 2], [entry_price |-> 2, quantity |-> 3]}

Methods == {"GET", "POST"}

\* The query string's sort_by and order: absent, or a string.
SortByParams == {None, Some("symbol"), Some("status"), Some("unknown")}

OrderParams == {None, Some("asc"), Some("up")}

\* The cleaned data of a TradeForm: the fields of Trade the user enters.
Form(symbol, entry_date, status, size, pnl) ==
    [symbol |-> symbol, entry_date |-> entry_date, status |-> status,
     entry_price |-> size.entry_price, quantity |-> size.quantity, pnl |-> pnl]

TradeForms ==
    {Form(sy, d, st, sz, p) :
        sy \in Symbols, d \in EntryDates, st \in Statuses, sz \in Sizes, p \in Pnls}

\* The payloads posted in Spec, where the handlers interleave.
PostedForms ==
    {f \in TradeForms :
        /\ f.symbol = "AAPL" /\ f.entry_date = 1 /\ f.entry_price = 1
        /\ f.pnl \in {None, Some(1)}}

\* Stored trades that differ in the columns a listing can be sorted on.
SortForms ==
    {f \in TradeForms :
        /\ f.entry_price = 1
        /\ f.pnl = IF f.status = "CLOSED" THEN Some(1) ELSE None}

\* Stored trades that differ in the columns the statistics read.
StatsForms == {f \in TradeForms : f.symbol = "AAPL" /\ f.entry_date = 1}

\* Rank of a symbol in the database's collation of the symbol column.
Collate(s) == IF s = "AAPL" THEN 1 ELSE 2

\* Rank of a status in the collation: "CLOSED" sorts before "OPEN".
StatusRank(s) == IF s = "CLOSED" THEN 1 ELSE 2

RECURSIVE GCD(_, _)
GCD(a, b) == IF b = 0 THEN a ELSE GCD(b, a % b)

\* The number n/d (d > 0) in lowest terms.
Ratio(n, d) == [num |-> n \div GCD(n, d), den |-> d \div GCD(n, d)]

\* What a request that raised ZeroDivisionError leaves in place of a value.
ZeroDivisionError == [num |-> 0, den |-> 0]

-----------------------------------------------------------------------------
(* The persistence layer as the views use it *)

\* Trade.objects.filter(user=...): the rows owned by the user.
Filter(rows, user) == {t \in rows : t.user = user}

\* Every sequence that lists each row of the set exactly once.
Perms(S) ==
    {p \in [1..Cardinality(S) -> S] :
        \A i, j \in 1..Cardinality(S) : i # j => p[i] # p[j]}

Descending(field) == field \in {"-symbol", "-status", "-entry_date"}

\* The value a row is compared on under an ordering by the named column.
Key(t, field) ==
    IF field \in {"symbol", "-symbol"} THEN Collate(t.symbol)
    ELSE IF field \in {"status", "-status"} THEN StatusRank(t.status)
    ELSE t.entry_date

\* The sequence is ordered as ORDER BY field [DESC] requires.
Ordered(p, field) ==
    \A i, j \in 1..Len(p) :
        i < j => IF Descending(field)
                 THEN Key(p[i], field) >= Key(p[j], field)
                 ELSE Key(p[i], field) <= Key(p[j], field)

\* QuerySet.order_by(field), evaluated: order_by replaces any default
\* ordering, so rows that compare equal on the column come back in an
\* order the database chooses.  The result is any ordered listing.
order_by(rows, field) == {p \in Perms(rows) : Ordered(p, field)}

\* Variant of get_object_or_404: the lookup by pk alone.
get_object_or_404_any_owner(pk, user) == {t \in trades : t.pk = pk}

\* get_object_or_404(Trade, pk=pk, user=user): the matching rows (one or
\* none); none is the 404.
get_object_or_404(pk, user) == {t \in trades : t.pk = pk /\ t.user = user}

-----------------------------------------------------------------------------
(* trade_list: sort resolution *)

\* Lines 18-23: the field to sort by.
sort_field(sort_by) ==
    IF sort_by = "symbol" THEN "symbol"
    ELSE IF sort_by = "status" THEN "status"
    ELSE "-entry_date"

\* Variant of ordering: the fallback honours order too.
ordering_fallback_honours_order(sort_by, order) ==
    IF order = "asc"
    THEN IF sort_by \in {"symbol", "status"} THEN sort_by ELSE "entry_date"
    ELSE IF sort_by \in {"symbol", "status"} THEN "-" \o sort_by ELSE "-entry_date"

\* Variant of ordering: descending only when order is exactly "desc".
ordering_descending_on_desc(sort_by, order) ==
    IF sort_by \in {"symbol", "status"}
    THEN IF order = "desc"
         THEN "-" \o sort_field(sort_by)
         ELSE sort_field(sort_by)
    ELSE sort_field(sort_by)

\* Lines 26-32: the argument order_by is called with.
ordering(sort_by, order) ==
    IF sort_by \in {"symbol", "status"}
    THEN IF order = "asc"
         THEN sort_field(sort_by)
         ELSE "-" \o sort_field(sort_by)
    ELSE sort_field(sort_by)

-----------------------------------------------------------------------------
(* trade_list: aggregation over the evaluated, ordered rows *)

\* sum(...) of Python: left to right from 0.
RECURSIVE sum(_)
sum(s) == IF s = <<>> THEN 0 ELSE Head(s) + sum(Tail(s))

IsNotNone(t) == t.pnl # None

\* Variant of total_pnl: what the comment on line 34 describes, the CLOSED
\* trades only.
total_pnl_closed_only(ts) ==
    LET IsCounted(t) == t.status = "CLOSED" /\ t.pnl # None
        counted == SelectSeq(ts, IsCounted)
    IN  sum([i \in 1..Len(counted) |-> Val(counted[i].pnl)])

\* Line 35.
total_pnl(ts) ==
    LET counted == SelectSeq(ts, IsNotNone)
    IN  sum([i \in 1..Len(counted) |-> Val(counted[i].pnl)])

\* Variant of total_investment: the CLOSED trades only.
total_investment_closed_only(ts) ==
    LET IsCounted(t) == t.status = "CLOSED"
        counted == SelectSeq(ts, IsCounted)
    IN  sum([i \in 1..Len(counted) |-> counted[i].entry_price * counted[i].quantity])

\* Line 38.
total_investment(ts) ==
    sum([i \in 1..Len(ts) |-> ts[i].entry_price * ts[i].quantity])

IsClosed(t) == t.status = "CLOSED"

\* Line 41.
closed_trades(ts) == SelectSeq(ts, IsClosed)

\* Variant of IsWinning: "trade.pnl is not None and trade.pnl >= 0".
IsWinning_or_breaking_even(t) == t.pnl # None /\ Val(t.pnl) >= 0

\* Line 42: "trade.pnl and trade.pnl > 0"; None and Decimal 0 are falsy.
IsWinning(t) == (t.pnl # None /\ Val(t.pnl) # 0) /\ Val(t.pnl) > 0

winning_trades(ts) == SelectSeq(closed_trades(ts), IsWinning)

\* int / int of Python: a float, or ZeroDivisionError.
TrueDiv(n, d) == IF d = 0 THEN ZeroDivisionError ELSE Ratio(n, d)

\* Variant of win_rate: the division without the guard.
win_rate_unguarded(ts) ==
    LET q == TrueDiv(Len(SelectSeq(SelectSeq(ts, IsClosed), IsWinning)),
                     Len(SelectSeq(ts, IsClosed)))
    IN  IF q = ZeroDivisionError THEN q ELSE Ratio(q.num * 100, q.den)

\* Line 43.
win_rate(ts) ==
    IF closed_trades(ts) # <<>>
    THEN LET q == TrueDiv(Len(winning_trades(ts)), Len(closed_trades(ts)))
         IN  IF q = ZeroDivisionError THEN q ELSE Ratio(q.num * 100, q.den)
    ELSE Ratio(0, 1)

\* Variant of MaxFrom: the last item of the greatest key.
RECURSIVE MaxFrom_last(_, _)
MaxFrom_last(best, s) ==
    IF s = <<>> THEN best
    ELSE IF Val(Head(s).pnl) >= Val(best.pnl)
         THEN MaxFrom_last(Head(s), Tail(s))
         ELSE MaxFrom_last(best, Tail(s))

\* max(iterable, key=..., default=None) of Python: the first item whose key
\* no later item exceeds strictly; default when there is no item.
RECURSIVE MaxFrom(_, _)
MaxFrom(best, s) ==
    IF s = <<>> THEN best
    ELSE IF Val(Head(s).pnl) > Val(best.pnl)
         THEN MaxFrom(Head(s), Tail(s))
         ELSE MaxFrom(best, Tail(s))

\* Lines 46-47.
best_performer(ts) ==
    LET candidates == SelectSeq(closed_trades(ts), IsNotNone)
    IN  IF candidates = <<>> THEN None
        ELSE Some(MaxFrom(Head(candidates), Tail(candidates)))

\* Lines 50-51.
net_worth(user) ==
    IF portfolios[user] # None THEN Val(portfolios[user]) ELSE 0

\* Lines 54-63.  trades is the ordered queryset: the ordering it was built
\* with and the rows its one evaluation returned.
Context(ts, user, sort_by, order) ==
    [trades           |-> [ordering |-> ordering(sort_by, order), rows |-> ts],
     current_sort     |-> sort_by,
     current_order    |-> order,
     total_pnl        |-> total_pnl(ts),
     net_worth        |-> net_worth(user),
     win_rate         |-> win_rate(ts),
     best_performer   |-> best_performer(ts),
     total_investment |-> total_investment(ts)]

NoContext == [trades |-> [ordering |-> "", rows |-> <<>>]]

\* A response, with the request it answers: the view it was routed to,
\* request.user, request.method and the pk of the URL (0 when it has none).
Response(view, user, method, pk, status, context) ==
    [view |-> view, user |-> user, method |-> method, pk |-> pk,
     status |-> status, context |-> context]

\* request.GET.get(key, default).
Get(param, default) == IF param = None THEN default ELSE Val(param)

\* Variant of trade_list: the portfolio is fetched with get_or_create, which
\* stores one of balance 0 for a user who has none.
trade_list_get_or_create(user, sort_by_param, order_param) ==
    LET sort_by == Get(sort_by_param, "entry_date")
        order   == Get(order_param, "desc")
    IN  /\ \E ts \in order_by(Filter(trades, user), ordering(sort_by, order)) :
              response' = Response("trade_list", user, "GET", 0, 200,
                                   Context(ts, user, sort_by, order))
        /\ portfolios' = [portfolios EXCEPT
                             ![user] = IF @ = None THEN Some(0) ELSE @]
        /\ UNCHANGED <<trades, strategies, images, nextTradePk>>

\* trade_list(request) for request.user = user and the query string's two
\* parameters.  An exception raised while computing the context is a 500.
trade_list(user, sort_by_param, order_param) ==
    LET sort_by == Get(sort_by_param, "entry_date")
        order   == Get(order_param, "desc")
    IN  /\ \E ts \in order_by(Filter(trades, user), ordering(sort_by, order)) :
              LET context == Context(ts, user, sort_by, order)
              IN  response' = Response("trade_list", user, "GET", 0,
                                       IF context.win_rate = ZeroDivisionError
                                       THEN 500 ELSE 200,
                                       context)
        /\ UNCHANGED <<db, nextTradePk>>

-----------------------------------------------------------------------------
(* The handlers that write *)

\* form.save(commit=False); trade.user = request.user: the row to insert.
NewTrade(pk, user, form) ==
    [pk |-> pk, user |-> user, symbol |-> form.symbol,
     entry_date |-> form.entry_date, status |-> form.status,
     entry_price |-> form.entry_price, quantity |-> form.quantity,
     pnl |-> form.pnl]

\* form.save() of a form bound to instance=trade: the row with the form's
\* fields; pk and user stay the instance's.
SavedTrade(trade, form) == NewTrade(trade.pk, trade.user, form)

\* trade_create(request): is_valid is the form's verdict on the payload.
trade_create(user, method, form, is_valid) ==
    /\ nextTradePk <= MaxTrades
    /\ IF method = "POST" /\ is_valid
       THEN /\ trades' = trades \cup {NewTrade(nextTradePk, user, form)}
            /\ nextTradePk' = nextTradePk + 1
            /\ response' = Response("trade_create", user, method, 0, 302, NoContext)
       ELSE /\ UNCHANGED <<trades, nextTradePk>>
            /\ response' = Response("trade_create", user, method, 0, 200, NoContext)
    /\ UNCHANGED <<strategies, images, portfolios>>

\* trade_update(request, pk).
trade_update(user, method, pk, form, is_valid) ==
    /\ IF get_object_or_404(pk, user) = {}
       THEN /\ response' = Response("trade_update", user, method, pk, 404, NoContext)
            /\ UNCHANGED trades
       ELSE LET trade == CHOOSE t \in get_object_or_404(pk, user) : TRUE
            IN  IF method = "POST" /\ is_valid
                THEN /\ trades' = (trades \ {trade}) \cup {SavedTrade(trade, form)}
                     /\ response' = Response("trade_update", user, method, pk, 302, NoContext)
                ELSE /\ UNCHANGED trades
                     /\ response' = Response("trade_update", user, method, pk, 200, NoContext)
    /\ UNCHANGED <<strategies, images, portfolios, nextTradePk>>

\* The TradeImage rows left when a trade is deleted: those of other parents
\* (the delete cascades to the trade's images).
Cascade(trade) == {i \in images : i.trade # trade.pk}

\* trade.delete().
DeleteTrade(trade) ==
    /\ trades' = trades \ {trade}
    /\ images' = Cascade(trade)

\* trade_delete(request, pk).
trade_delete(user, method, pk) ==
    /\ IF get_object_or_404(pk, user) = {}
       THEN /\ response' = Response("trade_delete", user, method, pk, 404, NoContext)
            /\ UNCHANGED <<trades, images>>
       ELSE LET trade == CHOOSE t \in get_object_or_404(pk, user) : TRUE
            IN  IF method = "POST"
                THEN /\ DeleteTrade(trade)
                     /\ response' = Response("trade_delete", user, method, pk, 302, NoContext)
                ELSE /\ UNCHANGED <<trades, images>>
                     /\ response' = Response("trade_delete", user, method, pk, 200, NoContext)
    /\ UNCHANGED <<strategies, portfolios, nextTradePk>>

-----------------------------------------------------------------------------
(* Specifications *)

Pks == 1..(MaxTrades + 1)

\* A user with a portfolio and a user without one.
InitPortfolios == [u \in Users |-> IF u = "alice" THEN Some(10) ELSE None]

NoResponse == Response("", "", "", 0, 0, NoContext)

\* The state after migration: empty tables.
Init ==
    /\ trades = {}
    /\ strategies = {}
    /\ images = {}
    /\ portfolios = InitPortfolios
    /\ nextTradePk = 1
    /\ response = NoResponse

TradeList == \E u \in Users, s \in SortByParams, o \in OrderParams : trade_list(u, s, o)

TradeCreate ==
    \E u \in Users, m \in Methods, f \in PostedForms, v \in BOOLEAN :
        trade_create(u, m, f, v)

TradeUpdate ==
    \E u \in Users, m \in Methods, pk \in Pks, f \in PostedForms, v \in BOOLEAN :
        trade_update(u, m, pk, f, v)

TradeDelete == \E u \in Users, m \in Methods, pk \in Pks : trade_delete(u, m, pk)

Next ==
    \/ TradeList
    \/ TradeCreate
    \/ TradeUpdate
    \/ TradeDelete

\* Any sequence of requests to the four trade handlers, from empty tables.
Spec == Init /\ [][Next]_vars

\* The tables of up to MaxStored trades, with pks 1..n, whose owners and
\* contents are drawn from the forms.
Stored(forms) ==
    UNION {{ {NewTrade(i, r[i][1], r[i][2]) : i \in 1..n} :
               r \in [1..n -> Users \X forms] } : n \in 0..MaxStored}

\* A strategy of each user, and a chart on every odd trade.
InitStored(forms) ==
    /\ trades \in Stored(forms)
    /\ strategies = {[id |-> 1, user |-> "alice"], [id |-> 2, user |-> "bob"]}
    /\ images = {[id |-> t.pk, trade |-> t.pk] : t \in {x \in trades : x.pk % 2 = 1}}
    /\ portfolios = InitPortfolios
    /\ nextTradePk = Cardinality(trades) + 1
    /\ response = NoResponse

\* One listing request against the stored tables.
NextList == response = NoResponse /\ TradeList

InitSort == InitStored(SortForms)

SpecSort == InitSort /\ [][NextList]_vars

InitStats == InitStored(StatsForms)

SpecStats == InitStats /\ [][NextList]_vars

-----------------------------------------------------------------------------
(* What the claims are stated in: the stored rows themselves *)

Listed == response.view = "trade_list"

ctx == response.context

rows == response.context.trades.rows

\* The stored trades of the user the last response was made for.
Owned == {t \in trades : t.user = response.user}

ClosedOwned == {t \in Owned : t.status = "CLOSED"}

RECURSIVE PnlOf(_)
PnlOf(S) ==
    IF S = {} THEN 0
    ELSE LET t == CHOOSE x \in S : TRUE IN Val(t.pnl) + PnlOf(S \ {t})

RECURSIVE InvestmentOf(_)
InvestmentOf(S) ==
    IF S = {} THEN 0
    ELSE LET t == CHOOSE x \in S : TRUE
         IN  t.entry_price * t.quantity + InvestmentOf(S \ {t})

\* The rank of a row in the named column.
Column(t, name) ==
    IF name = "symbol" THEN Collate(t.symbol) ELSE StatusRank(t.status)

\* C1: win_rate lies in [0, 100] and the request does not fail on a
\* division by zero; with no CLOSED trade of the user (none at all
\* included) it is exactly 0.
C1_WinRateInRange ==
    Listed =>
        /\ response.status = 200
        /\ ctx.win_rate.den > 0
        /\ 0 <= ctx.win_rate.num
        /\ ctx.win_rate.num <= 100 * ctx.win_rate.den
        /\ (ClosedOwned = {} => ctx.win_rate = [num |-> 0, den |-> 1])

\* C1 witness: a listing for a user who has trades, none of them CLOSED.
C1_Witness ==
    /\ Listed
    /\ Owned # {}
    /\ ClosedOwned = {}
    /\ ctx.win_rate.num = 0

\* C2: when sort_by is neither "symbol" nor "status" the rows come ordered
\* by entry_date descending, whatever order is ("asc" included).
C2_FallbackDescending ==
    (Listed /\ ctx.current_sort \notin {"symbol", "status"}) =>
        /\ ctx.trades.ordering = "-entry_date"
        /\ \A i, j \in 1..Len(rows) :
              i < j => rows[i].entry_date >= rows[j].entry_date

\* C2 witness: an unrecognized sort_by with order "asc", and two rows of
\* different dates listed latest first.
C2_Witness ==
    /\ Listed
    /\ ctx.current_sort = "unknown"
    /\ ctx.current_order = "asc"
    /\ Len(rows) = 2
    /\ rows[1].entry_date > rows[2].entry_date

\* C3: when sort_by is "symbol" or "status" the rows are ordered on that
\* column alone, ascending if and only if order is exactly "asc" and
\* descending for every other value of order.
C3_DirectionFollowsOrder ==
    (Listed /\ ctx.current_sort \in {"symbol", "status"}) =>
        /\ (ctx.trades.ordering = ctx.current_sort) <=> (ctx.current_order = "asc")
        /\ (ctx.trades.ordering = "-" \o ctx.current_sort) <=> (ctx.current_order # "asc")
        /\ \A i, j \in 1..Len(rows) :
              i < j => IF ctx.current_order = "asc"
                       THEN Column(rows[i], ctx.current_sort) <= Column(rows[j], ctx.current_sort)
                       ELSE Column(rows[i], ctx.current_sort) >= Column(rows[j], ctx.current_sort)

\* C3 witness: sorted by symbol with an unrecognized order, two symbols
\* listed last first while their entry dates run the other way.
C3_Witness ==
    /\ Listed
    /\ ctx.current_sort = "symbol"
    /\ ctx.current_order = "up"
    /\ Len(rows) = 2
    /\ Collate(rows[1].symbol) > Collate(rows[2].symbol)
    /\ rows[1].entry_date < rows[2].entry_date

\* C4: OPEN trades are excluded from the P&L total: total_pnl is the sum of
\* the P&L of the user's CLOSED trades only.
C4_OpenExcludedFromPnl ==
    Listed => ctx.total_pnl = PnlOf({t \in ClosedOwned : t.pnl # None})

Candidates == {i \in 1..Len(rows) : rows[i].status = "CLOSED" /\ rows[i].pnl # None}

\* C6: best_performer is None exactly when the user has no CLOSED trade
\* with non-null pnl; otherwise it is such a trade, of pnl at least that of
\* every other one, and the first in the listing among those of that pnl.
C6_BestPerformer ==
    Listed =>
        /\ (ctx.best_performer = None) <=> (Candidates = {})
        /\ (ctx.best_performer = None) <=>
               ({t \in ClosedOwned : t.pnl # None} = {})
        /\ Candidates # {} =>
               \E i \in Candidates :
                   /\ ctx.best_performer = Some(rows[i])
                   /\ \A j \in Candidates :
                         /\ Val(rows[i].pnl) >= Val(rows[j].pnl)
                         /\ Val(rows[i].pnl) = Val(rows[j].pnl) => i <= j

\* C6 witness: two CLOSED trades of the same pnl; the first listed is the
\* best performer.
C6_Witness ==
    /\ Listed
    /\ Candidates = {1, 2}
    /\ rows[1].pnl = rows[2].pnl
    /\ ctx.best_performer = Some(rows[1])

\* C7: total_investment is the sum of entry_price * quantity over all the
\* user's trades, open and closed, and the same in whatever order a sort_by
\* and order list them.
C7_TotalInvestment ==
    Listed =>
        /\ ctx.total_investment = InvestmentOf(Owned)
        /\ \A ts \in Perms(Owned) : total_investment(ts) = ctx.total_investment

\* C7 witness: an OPEN and a CLOSED trade of different sizes, both counted.
C7_Witness ==
    /\ Listed
    /\ \E t, u \in Owned :
          /\ t.status = "OPEN" /\ u.status = "CLOSED"
          /\ t.entry_price # u.entry_price
    /\ ctx.total_investment = 8

\* C8: trade_list is read-only: whoever asks and with whatever sort_by and
\* order, the stored trades, strategies, images and portfolios are after
\* the request what they were before it.
C8_ReadOnly == [][TradeList => UNCHANGED db]_vars

\* C8 witness: a listing answered with trades, strategies and images stored.
C8_Witness ==
    /\ Listed
    /\ Len(rows) = 2
    /\ strategies # {}
    /\ images # {}

\* C9: a trade wins iff it is CLOSED with non-null pnl > 0, and with at
\* least one CLOSED trade win_rate is winning / CLOSED * 100, the CLOSED
\* trades of null pnl counted in the denominator.
C9_WinRate ==
    (Listed /\ ClosedOwned # {}) =>
        LET winning == {t \in ClosedOwned : t.pnl # None /\ Val(t.pnl) > 0}
        IN  ctx.win_rate = Ratio(100 * Cardinality(winning), Cardinality(ClosedOwned))

\* C9 witness: a winning trade and a CLOSED trade of null pnl: 50 percent.
C9_Witness ==
    /\ Listed
    /\ \E t \in ClosedOwned : t.pnl = None
    /\ \E t \in ClosedOwned : t.pnl = Some(1)
    /\ ctx.win_rate = [num |-> 50, den |-> 1]

HasOwn(user, pk) == \E t \in trades : t.pk = pk /\ t.user = user

\* C10: ownership isolation.  A created trade is owned by the requester;
\* an update or delete addressed to another user's trade or to no trade is
\* a 404 and changes no trade; a delete removes the trade on POST only;
\* a listing holds exactly the requester's trades and their statistics.
C10_Isolation ==
    [][ LET r   == response'
            own == {t \in trades : t.user = r.user}
        IN  /\ r.view = "trade_create" =>
                  /\ \A t \in trades' \ trades : t.user = r.user
                  /\ trades \subseteq trades'
            /\ (r.view \in {"trade_update", "trade_delete"} /\ ~HasOwn(r.user, r.pk)) =>
                  /\ r.status = 404
                  /\ trades' = trades
            /\ r.view = "trade_delete" =>
                  /\ r.method = "GET" => trades' = trades
                  /\ (r.method = "POST" /\ HasOwn(r.user, r.pk)) =>
                         trades' = {t \in trades : t.pk # r.pk}
            /\ r.view = "trade_list" =>
                  LET c == r.context
                  IN  /\ {c.trades.rows[i] : i \in 1..Len(c.trades.rows)} = own
                      /\ Len(c.trades.rows) = Cardinality(own)
                      /\ c.total_pnl = PnlOf({t \in own : t.pnl # None})
                      /\ c.total_investment = InvestmentOf(own)
                      /\ c.win_rate = win_rate(c.trades.rows)
                      /\ c.best_performer = best_performer(c.trades.rows)
      ]_vars

\* C10 witness: a user's update of a trade another user owns was answered
\* 404, and the trade is still stored.
C10_Witness ==
    /\ response.view = "trade_update"
    /\ response.method = "POST"
    /\ response.status = 404
    /\ \E t \in trades : t.pk = response.pk /\ t.user # response.user

====
